---- MODULE Spec2Model ----
(***************************************************************************)
(* A model of app.py, the Cadillac Escalade ESV finder.                    *)
(*                                                                         *)
(* Text is modelled character by character: a Python str is a sequence of  *)
(* one-character strings, so substring tests, lower(), strip(), the price  *)
(* regular expression and the title truncation are computed as the code    *)
(* computes them.  Optional[T] is a sequence of length at most one:        *)
(* None is <<>> and a value v is <<v>>.                                    *)
(*                                                                         *)
(* Three specifications share the variables:                               *)
(*   SpecPrice  one call of extract_price on a text;                       *)
(*   SpecParse  two successive calls of parse_inventory_page on one page,  *)
(*              each run card by card;                                     *)
(*   Spec       one run of the program (the __main__ block), dealer by     *)
(*              dealer.                                                    *)
(***************************************************************************)
EXTENDS Integers, Sequences, FiniteSets, TLC

VARIABLES
    \* ---- extract_price (SpecPrice)
    x_pc,          \* "idle" | "call" | "returned"
    text,          \* the argument of extract_price
    price,         \* its return value, Optional[int]
    \* ---- parse_inventory_page (SpecParse)
    p_pc,          \* "idle" | "begin" | "cards" | "done"
    page,          \* the html argument, as its DOM text nodes
    new_only,      \* the new_only argument
    text_nodes,    \* indices of the matching text nodes, document order
    node_i,        \* position of the for loop in text_nodes
    offers,        \* the local list offers
    seen,          \* the local set seen
    call,          \* 1 or 2: which of the two calls is running
    returned,      \* the values returned by the calls finished so far
    \* ---- the program run (Spec)
    pc,            \* "idle" | "start" | "loop" | "fetched" | "main" | "saved" |
                   \* "exit" | "raised" | "crashed"
    dealers_csv,   \* the dealer file: None when absent, else its rows
    dealers,       \* the list load_dealers returned
    di,            \* position of the for loop in dealers
    html,          \* the value fetch_html returned for the current dealer
    all_offers,    \* the local list all_offers
    result,        \* the value find_best_offers returned (offers in __main__)
    csv_out,       \* results.csv: None until written
    stdout,        \* the lines print() wrote
    log,           \* the logging records emitted, <<level, message>>
    trace          \* history: the fetches, parses and the sort, in order

priceVars == <<x_pc, text, price>>
parseVars == <<p_pc, page, new_only, text_nodes, node_i, offers, seen, call, returned>>
runVars   == <<pc, dealers_csv, dealers, di, html, all_offers, result, csv_out,
               stdout, log, trace>>
vars      == <<priceVars, parseVars, runVars>>

None == <<>>
Some(v) == <<v>>

Min(a, b) == IF a <= b THEN a ELSE b
Max(a, b) == IF a >= b THEN a ELSE b

(***************************************************************************)
(* Characters and strings                                                  *)
(***************************************************************************)
Upper == <<"A", "B", "C", "D", "E", "F", "G", "H", "I", "J", "K", "L", "M",
           "N", "O", "P", "Q", "R", "S", "T", "U", "V", "W", "X", "Y", "Z">>
Lower == <<"a", "b", "c", "d", "e", "f", "g", "h", "i", "j", "k", "l", "m",
           "n", "o", "p", "q", "r", "s", "t", "u", "v", "w", "x", "y", "z">>
Digits == <<"0", "1", "2", "3", "4", "5", "6", "7", "8", "9">>

\* the characters the regular expression classes \s and \d accept
Whitespace == {" ", "\t", "\n"}
DigitChars == {Digits[k] : k \in 1..Len(Digits)}

\* the value of a decimal digit character
DigitVal(c) == (CHOOSE k \in 1..Len(Digits) : Digits[k] = c) - 1

\* the lower-case letter of every upper-case letter
LowerOf ==
    [c \in {Upper[k] : k \in 1..Len(Upper)} |->
        Lower[CHOOSE k \in 1..Len(Upper) : Upper[k] = c]]

\* str.lower(), one character
LowerChar(c) == IF c \in DOMAIN LowerOf THEN LowerOf[c] ELSE c

\* str.lower()
ToLower(s) == [k \in 1..Len(s) |-> LowerChar(s[k])]

\* the Python test  sub in s
Contains(s, sub) ==
    \E k \in 1..(Len(s) - Len(sub) + 1) : SubSeq(s, k, k + Len(sub) - 1) = sub

\* str.strip(): leading and trailing whitespace removed
Strip(s) ==
    LET inked == {k \in 1..Len(s) : s[k] \notin Whitespace}
    IN  IF inked = {} THEN <<>>
        ELSE SubSeq(s, CHOOSE k \in inked : \A m \in inked : k <= m,
                       CHOOSE k \in inked : \A m \in inked : k >= m)

\* str.replace(c, ""): every occurrence of the character c removed
RemoveChar(s, c) == SelectSeq(s, LAMBDA ch : ch # c)

(***************************************************************************)
(* Configuration                                                           *)
(***************************************************************************)
TARGET_MODEL_KEYWORDS ==
    << <<"e", "s", "c", "a", "l", "a", "d", "e">>, <<"e", "s", "v">> >>
SEARCH_NEW_ONLY == TRUE

used_keywords ==
    << <<"u", "s", "e", "d">>,
       <<"p", "r", "e", "-", "o", "w", "n", "e", "d">>,
       <<"p", "r", "e", " ", "o", "w", "n", "e", "d">>,
       <<"c", "p", "o">>,
       <<"c", "e", "r", "t", "i", "f", "i", "e", "d", " ",
         "p", "r", "e", "-", "o", "w", "n", "e", "d">> >>

\* the repetition bounds of [\d,]{4,8}
MinPriceChars == 4
MaxPriceChars == 8
\* range(4): the levels climbed from a text node to its card
ClimbLevels == 4
\* len(title) > 140, title[:137]
TitleMax == 140
TitleKeep == 137

(***************************************************************************)
(* text_contains_all_keywords, is_used_vehicle_text                        *)
(***************************************************************************)
\* a variant that forgets text.lower(): only the keywords are lowered
text_contains_all_keywords_CaseSensitive(t, keywords) ==
    \A k \in 1..Len(keywords) : Contains(t, ToLower(keywords[k]))

text_contains_all_keywords(t, keywords) ==
    LET text_lower == ToLower(t)
    IN  \A k \in 1..Len(keywords) : Contains(text_lower, ToLower(keywords[k]))

is_used_vehicle_text(t) ==
    LET text_l == ToLower(t)
    IN  \E k \in 1..Len(used_keywords) : Contains(text_l, used_keywords[k])

(***************************************************************************)
(* extract_price                                                           *)
(***************************************************************************)
PriceClass == DigitChars \cup {","}

\* the first position at or after k whose character is not in S
RECURSIVE SkipWhile(_, _, _)
SkipWhile(s, k, S) ==
    IF k <= Len(s) /\ s[k] \in S THEN SkipWhile(s, k + 1, S) ELSE k

\* a variant whose repetition has no upper bound: [\d,]{4,}
GroupAt_Unbounded(s, k) ==
    LET from == SkipWhile(s, k + 1, Whitespace)
        run  == SkipWhile(s, from, PriceClass) - from
    IN  IF s[k] = "$" /\ run >= MinPriceChars
        THEN Some(SubSeq(s, from, from + run - 1))
        ELSE None

\* the characters group 1 takes when the pattern is tried at position k:
\* "$", then \s* (greedy), then [\d,]{4,8} (greedy).  Backtracking into \s*
\* cannot help, whitespace not being in the class.
GroupAt(s, k) ==
    LET from == SkipWhile(s, k + 1, Whitespace)
        run  == SkipWhile(s, from, PriceClass) - from
    IN  IF s[k] = "$" /\ run >= MinPriceChars
        THEN Some(SubSeq(s, from, from + Min(run, MaxPriceChars) - 1))
        ELSE None

\* re.search(r"\$\s*([\d,]{4,8})", text): group 1 of the leftmost match
re_search(s) ==
    LET hits == {k \in 1..Len(s) : GroupAt(s, k) # None}
    IN  IF hits = {} THEN None
        ELSE GroupAt(s, CHOOSE k \in hits : \A m \in hits : k <= m)

\* int(s) for a string of decimal digits
RECURSIVE DecimalValue(_)
DecimalValue(s) ==
    IF s = <<>> THEN 0
    ELSE 10 * DecimalValue(SubSeq(s, 1, Len(s) - 1)) + DigitVal(s[Len(s)])

extract_price(t) ==
    LET match == re_search(t)
    IN  IF match = None THEN None
        ELSE LET digits == RemoveChar(match[1], ",")
             IN  IF digits = <<>> THEN None      \* int("") raises ValueError
                 ELSE Some(DecimalValue(digits))

(***************************************************************************)
(* SpecPrice: extract_price applied to a text                              *)
(***************************************************************************)
MaxTextLen == 6
MaxBody == 10
PriceAlphabet == {"$", " ", ",", "0", "7"}

RECURSIVE StringsOver(_, _)
StringsOver(S, n) ==
    IF n = 0 THEN {<<>>}
    ELSE LET shorter == StringsOver(S, n - 1)
         IN  shorter \cup {Append(s, c) : s \in {t \in shorter : Len(t) = n - 1}, c \in S}

\* every short text, and the long amounts "$" followed by digits and commas
PriceTexts ==
    StringsOver(PriceAlphabet, MaxTextLen)
    \cup {<<"$">> \o b : b \in StringsOver({"7", ","}, MaxBody)}

IdlePrice == x_pc = "idle" /\ text = <<>> /\ price = None

InitPrice ==
    /\ x_pc = "call"
    /\ text \in PriceTexts
    /\ price = None

ExtractPriceCall ==
    /\ x_pc = "call"
    /\ price' = extract_price(text)
    /\ x_pc' = "returned"
    /\ UNCHANGED <<text, parseVars, runVars>>

(***************************************************************************)
(* The DOM BeautifulSoup builds, as far as the parser reads it.            *)
(*                                                                         *)
(* A page is the sequence of its text nodes in document order.  A text     *)
(* node carries its string, its depth (the root object has depth 0) and    *)
(* lca, the depth of its lowest common ancestor with the text node before  *)
(* it (0 for the first).  Elements without text take no part in find_all   *)
(* or get_text, so this determines every value the parser computes.        *)
(***************************************************************************)
MaxLeaves == 2
MaxDepth == 6
PadLen == 130

Pad == [k \in 1..PadLen |-> "x"]
TxtNew == <<"E", "s", "c", "a", "l", "a", "d", "e", " ", "E", "S", "V", " ",
            "$", "1", ",", "2", "3", "4">>
TxtPre == <<"E", "S", "V", " ", "e", "s", "c", "a", "l", "a", "d", "e", " ",
            "p", "r", "e">>
TxtUsed == <<" ", "U", "s", "e", "d", " ", "$", " ", "2", ",", "5", "0", "0", " ">>
TxtOwned == <<"o", "w", "n", "e", "d", " ", "$", "9", "8", ",", "7", "6", "5">>
TxtSport == <<"E", "S", "V", " ", "E", "s", "c", "a", "l", "a", "d", "e", " ",
              "$", "7", ",", "0", "0", "0">>
TxtCpo == <<"e", "s", "c", "a", "l", "a", "d", "e", " ", "e", "s", "v", " ",
            "C", "P", "O">>
TxtLongA == TxtNew \o <<" ">> \o Pad \o <<"a">>
TxtLongB == TxtNew \o <<" ">> \o Pad \o <<"b">>
LeafTexts == {TxtNew, TxtSport, TxtPre, TxtCpo, TxtUsed, TxtOwned}

Leaf(t, d, a) == [txt |-> t, depth |-> d, lca |-> a]

RECURSIVE PagesOfLen(_)
PagesOfLen(n) ==
    IF n = 0 THEN {<<>>}
    ELSE {Append(p, Leaf(t, d, a)) :
            p \in PagesOfLen(n - 1),
            t \in LeafTexts,
            d \in 1..MaxDepth,
            a \in 0..(MaxDepth - 1)}

WellFormedPage(p) ==
    \A k \in 1..Len(p) :
        IF k = 1 THEN p[k].lca = 0
        ELSE p[k].lca <= Min(p[k - 1].depth, p[k].depth) - 1

\* pages whose card texts exceed the title length
LongPages ==
    { << Leaf(TxtLongA, 5, 0), Leaf(TxtLongB, 5, 0) >>,
      << Leaf(TxtLongB, 5, 0), Leaf(TxtLongA, 5, 4) >>,
      << Leaf(TxtLongA, 3, 0), Leaf(TxtUsed, 6, 1) >>,
      << Leaf(TxtLongB, 6, 0) >> }

Pages ==
    UNION {{p \in PagesOfLen(n) : WellFormedPage(p)} : n \in 0..MaxLeaves}
    \cup LongPages

\* soup.find_all(string=...): the text nodes whose own string has all keywords
RECURSIVE FindAllFrom(_, _, _)
FindAllFrom(p, k, keywords) ==
    IF k > Len(p) THEN <<>>
    ELSE (IF text_contains_all_keywords(p[k].txt, keywords) THEN <<k>> ELSE <<>>)
         \o FindAllFrom(p, k + 1, keywords)

find_all(p, keywords) == FindAllFrom(p, 1, keywords)

\* the depth of the lowest common ancestor of text nodes a < b
LcaDepth(p, a, b) ==
    LET between == {p[k].lca : k \in (a + 1)..b}
    IN  CHOOSE m \in between : \A o \in between : m <= o

\* the depth of the card: up to ClimbLevels parents up, stopping at the root
CardDepth(p, k) == Max(p[k].depth - ClimbLevels, 0)

\* the text nodes below the card of text node k
CardLeaves(p, k) ==
    {m \in 1..Len(p) :
        \/ m = k
        \/ m < k /\ LcaDepth(p, m, k) >= CardDepth(p, k)
        \/ m > k /\ LcaDepth(p, k, m) >= CardDepth(p, k)}

\* " ".join of the stripped, non-empty strings of the nodes in S from k on
RECURSIVE JoinFrom(_, _, _, _)
JoinFrom(p, S, k, acc) ==
    IF k > Len(p) THEN acc
    ELSE LET piece == IF k \in S THEN Strip(p[k].txt) ELSE <<>>
         IN  JoinFrom(p, S, k + 1,
                 IF piece = <<>> THEN acc
                 ELSE IF acc = <<>> THEN piece
                 ELSE acc \o <<" ">> \o piece)

\* card.get_text(separator=" ", strip=True) for the card of text node k
card_text(p, k) == JoinFrom(p, CardLeaves(p, k), 1, <<>>)

(***************************************************************************)
(* parse_inventory_page                                                    *)
(***************************************************************************)
MakeTitle(t) ==
    IF Len(t) > TitleMax THEN SubSeq(t, 1, TitleKeep) \o <<".", ".", ".">> ELSE t

VehicleOffer(dealer_name, title, o_price, listing_url) ==
    [dealer_name |-> dealer_name, title |-> title, price |-> o_price,
     listing_url |-> listing_url, location |-> None, distance_miles |-> None]

OfferKey(o) == <<o.dealer_name, o.title, o.price>>

\* the locals a call starts with: offers = [], seen = set()
ParseLocals == [offers |-> <<>>, seen |-> {}]

\* a variant that applies the used-vehicle filter whatever new_only is
CardStep_AlwaysNewOnly(st, t, dealer_name, inventory_url, model_keywords, only_new) ==
    IF ~text_contains_all_keywords(t, model_keywords) THEN st
    ELSE IF is_used_vehicle_text(t) THEN st
    ELSE LET found == extract_price(t)
         IN  IF found = None THEN st
             ELSE LET title == MakeTitle(t)
                      key   == <<dealer_name, title, found[1]>>
                  IN  IF key \in st.seen THEN st
                      ELSE [offers |-> Append(st.offers,
                                VehicleOffer(dealer_name, title, found[1], inventory_url)),
                            seen |-> st.seen \cup {key}]

\* a variant that keeps a card without a price, its price left None
CardStep_KeepUnpriced(st, t, dealer_name, inventory_url, model_keywords, only_new) ==
    IF ~text_contains_all_keywords(t, model_keywords) THEN st
    ELSE IF only_new /\ is_used_vehicle_text(t) THEN st
    ELSE LET found == extract_price(t)
             title == MakeTitle(t)
             key   == <<dealer_name, title, found>>
         IN  IF key \in st.seen THEN st
             ELSE [offers |-> Append(st.offers,
                       VehicleOffer(dealer_name, title,
                                    IF found = None THEN None ELSE found[1],
                                    inventory_url)),
                   seen |-> st.seen \cup {key}]

\* a variant that never looks the key up in seen
CardStep_NoDedup(st, t, dealer_name, inventory_url, model_keywords, only_new) ==
    IF ~text_contains_all_keywords(t, model_keywords) THEN st
    ELSE IF only_new /\ is_used_vehicle_text(t) THEN st
    ELSE LET found == extract_price(t)
         IN  IF found = None THEN st
             ELSE LET title == MakeTitle(t)
                      key   == <<dealer_name, title, found[1]>>
                  IN  [offers |-> Append(st.offers,
                            VehicleOffer(dealer_name, title, found[1], inventory_url)),
                       seen |-> st.seen \cup {key}]

\* one pass of the for loop, for the card whose text is t
CardStep(st, t, dealer_name, inventory_url, model_keywords, only_new) ==
    IF ~text_contains_all_keywords(t, model_keywords) THEN st
    ELSE IF only_new /\ is_used_vehicle_text(t) THEN st
    ELSE LET found == extract_price(t)
         IN  IF found = None THEN st
             ELSE LET title == MakeTitle(t)
                      key   == <<dealer_name, title, found[1]>>
                  IN  IF key \in st.seen THEN st
                      ELSE [offers |-> Append(st.offers,
                                VehicleOffer(dealer_name, title, found[1], inventory_url)),
                            seen |-> st.seen \cup {key}]

RECURSIVE ParseLoop(_, _, _, _, _, _, _, _)
ParseLoop(st, p, nodes, k, dealer_name, inventory_url, model_keywords, only_new) ==
    IF k > Len(nodes) THEN st
    ELSE ParseLoop(
            CardStep(st, card_text(p, nodes[k]), dealer_name, inventory_url,
                     model_keywords, only_new),
            p, nodes, k + 1, dealer_name, inventory_url, model_keywords, only_new)

\* the whole call
parse_inventory_page(p, dealer_name, inventory_url, model_keywords, only_new) ==
    ParseLoop(ParseLocals, p, find_all(p, model_keywords), 1,
              dealer_name, inventory_url, model_keywords, only_new).offers

(***************************************************************************)
(* SpecParse: parse_inventory_page, card by card, called twice on the      *)
(* same arguments                                                          *)
(***************************************************************************)
ParseDealerName == "Dealer A"
ParseInventoryUrl == "https://a.example/new"
NumCalls == 2

IdleParse ==
    /\ p_pc = "idle" /\ page = <<>> /\ new_only = TRUE /\ text_nodes = <<>>
    /\ node_i = 1 /\ offers = <<>> /\ seen = {} /\ call = 1 /\ returned = <<>>

InitParse ==
    /\ p_pc = "begin"
    /\ page \in Pages
    /\ new_only \in BOOLEAN
    /\ text_nodes = <<>>
    /\ node_i = 1
    /\ offers = <<>>
    /\ seen = {}
    /\ call = 1
    /\ returned = <<>>

\* a variant whose seen outlives the call: the set is not made anew
ParseBegin_KeepSeen ==
    /\ p_pc = "begin"
    /\ offers' = ParseLocals.offers
    /\ seen' = seen
    /\ text_nodes' = find_all(page, TARGET_MODEL_KEYWORDS)
    /\ node_i' = 1
    /\ p_pc' = "cards"
    /\ UNCHANGED <<page, new_only, call, returned, priceVars, runVars>>

\* lines 117-128: build the soup, offers = [], find the text nodes, seen = set()
ParseBegin ==
    /\ p_pc = "begin"
    /\ offers' = ParseLocals.offers
    /\ seen' = ParseLocals.seen
    /\ text_nodes' = find_all(page, TARGET_MODEL_KEYWORDS)
    /\ node_i' = 1
    /\ p_pc' = "cards"
    /\ UNCHANGED <<page, new_only, call, returned, priceVars, runVars>>

\* lines 130-173: one pass of the loop over text_nodes
ParseCard ==
    /\ p_pc = "cards"
    /\ node_i <= Len(text_nodes)
    /\ LET st == CardStep([offers |-> offers, seen |-> seen],
                          card_text(page, text_nodes[node_i]),
                          ParseDealerName, ParseInventoryUrl,
                          TARGET_MODEL_KEYWORDS, new_only)
       IN  offers' = st.offers /\ seen' = st.seen
    /\ node_i' = node_i + 1
    /\ UNCHANGED <<p_pc, page, new_only, text_nodes, call, returned, priceVars, runVars>>

\* lines 175-176: return offers; the caller then calls again, once
ParseReturn ==
    /\ p_pc = "cards"
    /\ node_i > Len(text_nodes)
    /\ returned' = Append(returned, offers)
    /\ IF call < NumCalls
       THEN call' = call + 1 /\ p_pc' = "begin"
       ELSE call' = call /\ p_pc' = "done"
    /\ UNCHANGED <<page, new_only, text_nodes, node_i, offers, seen, priceVars, runVars>>

(***************************************************************************)
(* load_dealers, the sort, print_summary                                   *)
(***************************************************************************)
\* A row of dealers.csv gives each field as Optional: csv.DictReader fills
\* the fields a short row lacks with None, and row.get then returns that
\* None, not its default.

\* the rows of dealers.csv that have both fields non-blank, stripped
RECURSIVE LoadRows(_, _)
LoadRows(rows, k) ==
    IF k > Len(rows) THEN <<>>
    ELSE LET name == Strip(rows[k].dealer_name[1])
             url  == Strip(rows[k].inventory_url[1])
         IN  (IF name = <<>> \/ url = <<>> THEN <<>>
              ELSE << [dealer_name |-> name, inventory_url |-> url] >>)
             \o LoadRows(rows, k + 1)

\* None.strip() raises AttributeError, which nothing catches
LoadRaises(file) ==
    IF file = None THEN FALSE
    ELSE \E k \in 1..Len(file[1]) :
            file[1][k].dealer_name = None \/ file[1][k].inventory_url = None

\* load_dealers: no rows when the file is absent
load_dealers(file) == IF file = None THEN <<>> ELSE LoadRows(file[1], 1)

\* a variant that puts o before the elements of its own price
InsertByPrice_TiesFirst(sorted, o) ==
    LET before == {k \in 1..Len(sorted) : sorted[k].price < o.price}
        n      == Cardinality(before)
    IN  SubSeq(sorted, 1, n) \o <<o>> \o SubSeq(sorted, n + 1, Len(sorted))

\* o put into an ascending sequence behind every element whose price is
\* not greater: equal prices keep their order of arrival
InsertByPrice(sorted, o) ==
    LET before == {k \in 1..Len(sorted) : sorted[k].price <= o.price}
        n      == Cardinality(before)
    IN  SubSeq(sorted, 1, n) \o <<o>> \o SubSeq(sorted, n + 1, Len(sorted))

\* list.sort(key=lambda o: o.price): ascending and stable
RECURSIVE SortFrom(_, _, _)
SortFrom(list, k, sorted) ==
    IF k > Len(list) THEN sorted
    ELSE SortFrom(list, k + 1, InsertByPrice(sorted, list[k]))

sort_by_price(list) == SortFrom(list, 1, <<>>)

\* the default top_n of print_summary, as __main__ passes it
TopN == 5

Line(kind, pos, o) == [line |-> kind, pos |-> pos, offer |-> o]
NoOffersLine == Line("No offers found.", 0, None)

RECURSIVE TopLines(_, _, _)
TopLines(list, k, top_n) ==
    IF k > Min(top_n, Len(list)) THEN <<>>
    ELSE <<Line("item", k, Some(list[k]))>> \o TopLines(list, k + 1, top_n)

\* the lines print_summary prints
print_summary(list, top_n) ==
    IF list = <<>> THEN <<NoOffersLine>>
    ELSE <<Line("BEST PRICE FOUND", 1, Some(list[1])),
           Line("Top offers", Min(top_n, Len(list)), None)>>
         \o TopLines(list, 1, top_n)

Record(level, msg) == <<level, msg>>

(***************************************************************************)
(* Spec: one run of the program                                            *)
(***************************************************************************)
MaxDealers == 2

NameAl == <<"A", "l">>
NameBo == <<" ", "B", "o", " ">>
Blank  == <<" ", " ">>
UrlAl  == <<"u", "/", "a">>
UrlBo  == <<"u", "/", "b">>
UrlCy  == <<"u", "/", "c">>

\* rows a dealers.csv may hold: two good ones, one with a blank name, one
\* too short to have a url
CsvRows ==
    { [dealer_name |-> Some(NameAl), inventory_url |-> Some(UrlAl)],
      [dealer_name |-> Some(NameBo), inventory_url |-> Some(UrlBo)],
      [dealer_name |-> Some(Blank),  inventory_url |-> Some(UrlCy)],
      [dealer_name |-> Some(NameAl), inventory_url |-> None] }

CsvFiles ==
    {None} \cup {Some(rows) : rows \in UNION {[1..n -> CsvRows] : n \in 0..MaxDealers}}

\* the pages a dealer's site may serve
PageOne    == << Leaf(TxtNew, 3, 0) >>
PageDear   == << Leaf(TxtOwned, 6, 0), Leaf(TxtNew, 5, 1) >>
PageTwo    == << Leaf(TxtSport, 5, 0), Leaf(TxtNew, 5, 0) >>
PageTwice  == << Leaf(TxtNew, 3, 0), Leaf(TxtNew, 3, 2) >>
PageUsed   == << Leaf(TxtNew, 5, 0), Leaf(TxtUsed, 5, 1) >>
PageLong   == << Leaf(TxtLongA, 5, 0), Leaf(TxtLongB, 5, 0) >>
RunPages   == {PageOne, PageDear, PageTwo, PageTwice, PageUsed, PageLong}

\* resp.text: an empty body, or a body with the given DOM
Body(p) == [empty |-> FALSE, dom |-> p]
EmptyBody == [empty |-> TRUE, dom |-> <<>>]

\* what fetch_html may return: None on any exception, else resp.text
FetchOutcomes == {None} \cup {Some(EmptyBody)} \cup {Some(Body(p)) : p \in RunPages}

\* the Python test  not html
Falsy(h) == IF h = None THEN TRUE ELSE h[1].empty

Event(op, d, h, os) == [op |-> op, dealer |-> d, html |-> h, offers |-> os]

InitRun ==
    /\ pc = "start"
    /\ dealers_csv \in CsvFiles
    /\ dealers = <<>>
    /\ di = 1
    /\ html = None
    /\ all_offers = <<>>
    /\ result = <<>>
    /\ csv_out = None
    /\ stdout = <<>>
    /\ log = <<>>
    /\ trace = <<>>

IdleRun ==
    /\ pc = "idle" /\ dealers_csv = None /\ dealers = <<>> /\ di = 1
    /\ html = None /\ all_offers = <<>> /\ result = <<>> /\ csv_out = None
    /\ stdout = <<>> /\ log = <<>> /\ trace = <<>>

\* lines 240-241, 180-181, 42-59: the run starts, find_best_offers loads the
\* dealers; a short row ends the run with an exception
LoadDealers ==
    /\ pc = "start"
    /\ IF LoadRaises(dealers_csv)
       THEN /\ dealers' = dealers
            /\ log' = Append(log, Record("INFO", "Starting"))
            /\ pc' = "crashed"
       ELSE /\ dealers' = load_dealers(dealers_csv)
            /\ log' = log \o <<Record("INFO", "Starting"),
                               IF dealers_csv = None
                               THEN Record("ERROR", "dealers.csv not found")
                               ELSE Record("INFO", "Loaded dealers")>>
            /\ pc' = "loop"
    /\ all_offers' = <<>>
    /\ di' = 1
    /\ UNCHANGED <<dealers_csv, html, result, csv_out, stdout, trace,
                   priceVars, parseVars>>

\* lines 183-187, 62-78: the next dealer's page is fetched, once
FetchHtml ==
    /\ pc = "loop"
    /\ di <= Len(dealers)
    /\ \E outcome \in FetchOutcomes :
        /\ html' = outcome
        /\ trace' = Append(trace, Event("fetch", di, outcome, <<>>))
        /\ log' = log \o <<Record("INFO", "Fetching inventory page")>>
                      \o (IF outcome = None THEN <<Record("ERROR", "Error fetching")>>
                          ELSE <<>>)
    /\ pc' = "fetched"
    /\ UNCHANGED <<dealers_csv, dealers, di, all_offers, result, csv_out, stdout,
                   priceVars, parseVars>>

\* a variant that leaves the loop at the first failed fetch: break
SkipDealer_Break ==
    /\ pc = "fetched"
    /\ Falsy(html)
    /\ di' = Len(dealers) + 1
    /\ pc' = "loop"
    /\ UNCHANGED <<dealers_csv, dealers, html, all_offers, result, csv_out, stdout,
                   log, trace, priceVars, parseVars>>

\* a variant that fetches the same dealer again after a failed fetch
SkipDealer_Retry ==
    /\ pc = "fetched"
    /\ Falsy(html)
    /\ di' = di
    /\ pc' = "loop"
    /\ UNCHANGED <<dealers_csv, dealers, html, all_offers, result, csv_out, stdout,
                   log, trace, priceVars, parseVars>>

\* lines 188-189: if not html: continue
SkipDealer ==
    /\ pc = "fetched"
    /\ Falsy(html)
    /\ di' = di + 1
    /\ pc' = "loop"
    /\ UNCHANGED <<dealers_csv, dealers, html, all_offers, result, csv_out, stdout,
                   log, trace, priceVars, parseVars>>

\* lines 191-198: the page is parsed and its offers appended
ParseDealer ==
    /\ pc = "fetched"
    /\ ~Falsy(html)
    /\ LET parsed == parse_inventory_page(html[1].dom,
                                          dealers[di].dealer_name,
                                          dealers[di].inventory_url,
                                          TARGET_MODEL_KEYWORDS, SEARCH_NEW_ONLY)
       IN  /\ all_offers' = all_offers \o parsed
           /\ trace' = Append(trace, Event("parse", di, html, parsed))
    /\ log' = log \o <<Record("INFO", "Found potential mentions"),
                       Record("INFO", "Parsed possible offers")>>
    /\ di' = di + 1
    /\ pc' = "loop"
    /\ UNCHANGED <<dealers_csv, dealers, html, result, csv_out, stdout,
                   priceVars, parseVars>>

\* lines 200-203: nothing found: warn and return []
ReturnNothing ==
    /\ pc = "loop"
    /\ di > Len(dealers)
    /\ all_offers = <<>>
    /\ log' = Append(log, Record("WARNING", "No matching vehicles were found."))
    /\ result' = <<>>
    /\ pc' = "main"
    /\ UNCHANGED <<dealers_csv, dealers, di, html, all_offers, csv_out, stdout,
                   trace, priceVars, parseVars>>

\* lines 205-207: sort by price and return
SortAndReturn ==
    /\ pc = "loop"
    /\ di > Len(dealers)
    /\ all_offers # <<>>
    /\ all_offers' = sort_by_price(all_offers)
    /\ result' = all_offers'
    /\ trace' = Append(trace, Event("sort", 0, None, all_offers'))
    /\ pc' = "main"
    /\ UNCHANGED <<dealers_csv, dealers, di, html, csv_out, stdout, log,
                   priceVars, parseVars>>

\* lines 242, 245: if offers: is false; only "Done." is logged
MainNoOffers ==
    /\ pc = "main"
    /\ result = <<>>
    /\ log' = Append(log, Record("INFO", "Done."))
    /\ pc' = "exit"
    /\ UNCHANGED <<dealers_csv, dealers, di, html, all_offers, result, csv_out,
                   stdout, trace, priceVars, parseVars>>

\* lines 242-243, 210-213: the offers are written; to_csv may raise, and
\* nothing catches it
SaveOffers ==
    /\ pc = "main"
    /\ result # <<>>
    /\ \E written \in BOOLEAN :
        IF written
        THEN /\ csv_out' = Some(result)
             /\ log' = Append(log, Record("INFO", "Saved offers"))
             /\ pc' = "saved"
        ELSE /\ csv_out' = csv_out
             /\ log' = log
             /\ pc' = "raised"
    /\ UNCHANGED <<dealers_csv, dealers, di, html, all_offers, result, stdout,
                   trace, priceVars, parseVars>>

\* lines 244-245: the summary is printed, then "Done." is logged
PrintSummary ==
    /\ pc = "saved"
    /\ stdout' = stdout \o print_summary(result, TopN)
    /\ log' = Append(log, Record("INFO", "Done."))
    /\ pc' = "exit"
    /\ UNCHANGED <<dealers_csv, dealers, di, html, all_offers, result, csv_out,
                   trace, priceVars, parseVars>>

(***************************************************************************)
(* The specifications                                                      *)
(***************************************************************************)
Init == InitRun /\ IdleParse /\ IdlePrice

Next ==
    \/ LoadDealers
    \/ FetchHtml
    \/ SkipDealer
    \/ ParseDealer
    \/ ReturnNothing
    \/ SortAndReturn
    \/ MainNoOffers
    \/ SaveOffers
    \/ PrintSummary

Spec == Init /\ [][Next]_vars

InitParseCalls == InitParse /\ IdleRun /\ IdlePrice

NextParse == ParseBegin \/ ParseCard \/ ParseReturn

SpecParse == InitParseCalls /\ [][NextParse]_vars

InitPriceCall == InitPrice /\ IdleRun /\ IdleParse

NextPrice == ExtractPriceCall

SpecPrice == InitPriceCall /\ [][NextPrice]_vars

(***************************************************************************)
(* Vocabulary of the properties                                            *)
(***************************************************************************)
Range(q) == {q[k] : k \in 1..Len(q)}
Count(o, q) == Cardinality({k \in 1..Len(q) : q[k] = o})

\* find_best_offers has returned
Returned == pc \in {"main", "saved", "raised", "exit"}
\* find_best_offers returns: result is what it hands to __main__
AtReturn == pc = "main"
\* the run is over
Ended == pc \in {"exit", "raised", "crashed"}

FetchEvents == SelectSeq(trace, LAMBDA e : e.op = "fetch")
ParseEvents == SelectSeq(trace, LAMBDA e : e.op = "parse")

\* what parsing the page of a fetch yields; nothing for a failed fetch
OffersOfFetch(e) ==
    IF e.html = None THEN <<>>
    ELSE parse_inventory_page(e.html[1].dom, dealers[e.dealer].dealer_name,
                              dealers[e.dealer].inventory_url,
                              TARGET_MODEL_KEYWORDS, SEARCH_NEW_ONLY)

\* the offers of the fetches from the k-th on, dealer after dealer
RECURSIVE ConcatFetched(_, _)
ConcatFetched(fs, k) ==
    IF k > Len(fs) THEN <<>> ELSE OffersOfFetch(fs[k]) \o ConcatFetched(fs, k + 1)

RECURSIVE ConcatParsed(_, _)
ConcatParsed(ps, k) ==
    IF k > Len(ps) THEN <<>> ELSE ps[k].offers \o ConcatParsed(ps, k + 1)

IsPermutation(a, b) ==
    /\ Len(a) = Len(b)
    /\ \A o \in Range(a) \cup Range(b) : Count(o, a) = Count(o, b)

Ascending(q) == \A k \in 1..(Len(q) - 1) : q[k].price <= q[k + 1].price

\* equal prices come in the order they have in from
StableFrom(q, from) ==
    \A pr \in {o.price : o \in Range(from)} :
        SelectSeq(q, LAMBDA o : o.price = pr) = SelectSeq(from, LAMBDA o : o.price = pr)

\* C1: the sequence find_best_offers returns is a permutation of the
\* concatenation, in dealer order and parse order, of the offers parsed for
\* the dealers fetched with success; it ascends by price; offers of equal
\* price keep the order they have in the concatenation.
C1_SortedStablePermutation ==
    AtReturn =>
        LET all == ConcatFetched(FetchEvents, 1)
        IN  /\ IsPermutation(result, all)
            /\ Ascending(result)
            /\ StableFrom(result, all)

\* the sort moved an offer, and two different offers tie on the price
C1_Witness ==
    /\ AtReturn
    /\ Len(result) >= 3
    /\ result # ConcatFetched(FetchEvents, 1)
    /\ \E k \in 1..(Len(result) - 1) :
        result[k].price = result[k + 1].price /\ result[k] # result[k + 1]

FetchOf(d) == {k \in 1..Len(trace) : trace[k].op = "fetch" /\ trace[k].dealer = d}

\* C2: a dealer whose fetch fails is never parsed and adds no offer; the run
\* goes on: every dealer of the list is fetched, and every offer parsed for
\* a dealer fetched with success is in the result, wherever the failing
\* dealers stand in the list.
C2_FailureIsolation ==
    /\ \A k \in 1..Len(trace) :
        trace[k].op = "parse" =>
            \A f \in FetchOf(trace[k].dealer) : trace[f].html # None
    /\ AtReturn =>
        /\ \A d \in 1..Len(dealers) : FetchOf(d) # {}
        /\ \A k \in 1..Len(FetchEvents) :
            \A o \in Range(OffersOfFetch(FetchEvents[k])) : o \in Range(result)
        /\ Len(result) = Len(ConcatFetched(FetchEvents, 1))

\* a dealer's fetch failed and the next dealer's page still gave offers
C2_Witness ==
    /\ AtReturn
    /\ result # <<>>
    /\ \E k \in 1..Len(FetchEvents) :
        /\ FetchEvents[k].html = None
        /\ k < Len(FetchEvents)
        /\ OffersOfFetch(FetchEvents[k + 1]) # <<>>

\* the fetches are of dealers 1, 2, ... in turn, one each; a parse follows
\* the fetch of its dealer at once; the sort is last, after the last dealer
C3_Order ==
    /\ \A k \in 1..Len(FetchEvents) : FetchEvents[k].dealer = k
    /\ Len(FetchEvents) <= Len(dealers)
    /\ Returned => Len(FetchEvents) = Len(dealers)
    /\ \A k \in 1..Len(trace) :
        /\ trace[k].op = "parse" =>
            k > 1 /\ trace[k - 1].op = "fetch" /\ trace[k - 1].dealer = trace[k].dealer
        /\ trace[k].op = "fetch" /\ k > 1 => trace[k - 1].dealer = trace[k].dealer - 1
        /\ trace[k].op = "sort" =>
            k = Len(trace) /\ Len(FetchEvents) = Len(dealers) /\ Returned

\* the steps the run has still to take, at most: two for each dealer not
\* yet fetched, then the return, the report
StepsLeft ==
    CASE pc = "start"   -> 2 * (IF dealers_csv = None THEN 0 ELSE Len(dealers_csv[1])) + 5
      [] pc = "loop"    -> 2 * (Len(dealers) + 1 - di) + 4
      [] pc = "fetched" -> 2 * (Len(dealers) + 1 - di) + 3
      [] pc = "main"    -> 2
      [] pc = "saved"   -> 1
      [] OTHER          -> 0

\* C3: dealers are processed one after another in listed order, with one
\* fetch for each loaded dealer (no retry, none skipped, none fetched
\* twice), a dealer's parse done before the next dealer's fetch, the sort
\* only after the last dealer; and the run terminates: every step takes it
\* nearer to its end, which no step leaves.
C3_Sequential ==
    /\ [](C3_Order /\ StepsLeft >= 0 /\ (Ended <=> StepsLeft = 0))
    /\ [][StepsLeft' < StepsLeft]_vars

\* two dealers, the first parsed before the second was fetched, then the sort
C3_Witness ==
    /\ Ended
    /\ Len(dealers) = 2
    /\ Len(trace) = 5
    /\ trace[2].op = "parse" /\ trace[3].op = "fetch" /\ trace[5].op = "sort"

(***************************************************************************)
(* The parser's properties, in the words of its contract                   *)
(***************************************************************************)
\* the text has every model keyword as a substring, whatever the case
HasAllKeywords(t) ==
    \A w \in Range(TARGET_MODEL_KEYWORDS) : Contains(ToLower(t), w)

\* the text has a used-vehicle marker as a substring, whatever the case
HasUsedMarker(t) ==
    \E w \in Range(used_keywords) : Contains(ToLower(t), w)

\* j is where, after the dollar sign at k and whitespace, the amount starts
AmountAt(t, k, j) ==
    /\ t[k] = "$"
    /\ \A m \in (k + 1)..(j - 1) : t[m] \in Whitespace
    /\ j + MinPriceChars - 1 <= Len(t)
    /\ \A m \in j..(j + MinPriceChars - 1) : t[m] \in PriceClass

\* the text has a price-shaped substring
PriceShaped(t) ==
    \E k \in 1..Len(t) : \E j \in (k + 1)..Len(t) : AmountAt(t, k, j)

\* the candidate text nodes of a page, in document order
CandidatesFrom(p, k) ==
    SelectSeq([m \in 1..Len(p) |-> m], LAMBDA m : m >= k /\ HasAllKeywords(p[m].txt))

\* the pass of the loop over the card of text_nodes[node_i]
CardPass == p_pc = "cards" /\ node_i <= Len(text_nodes) /\ node_i' = node_i + 1
CardNow == card_text(page, text_nodes[node_i])
CardBefore == card_text(page, text_nodes[node_i - 1])
OfferNow ==
    VehicleOffer(ParseDealerName, MakeTitle(CardNow), extract_price(CardNow)[1],
                 ParseInventoryUrl)

Calls == 1..Len(returned)
CardsOfPage == LET c == CandidatesFrom(page, 1) IN {card_text(page, c[k]) : k \in 1..Len(c)}

\* C5 as stated: for every card with all keywords and a recognizable price
\* the call returns an offer with exactly that price.
C5_Original ==
    \A c \in Calls : \A t \in CardsOfPage :
        HasAllKeywords(t) /\ extract_price(t) # None =>
            \E o \in Range(returned[c]) : o.price = extract_price(t)[1]

\* C5, amended: for every card (the ancestor recovered from a text node that
\* has all keywords) whose text has a price extract_price recognizes and,
\* when new_only is enabled, no used-vehicle marker, the call returns an
\* offer with exactly that price.
C5_PricedCardOffered ==
    \A c \in Calls : \A t \in CardsOfPage :
        /\ HasAllKeywords(t)
        /\ extract_price(t) # None
        /\ ~(new_only /\ HasUsedMarker(t))
        => \E o \in Range(returned[c]) : o.price = extract_price(t)[1]

\* a call has returned the offer of a priced card, another priced card of
\* the page being rejected for its marker
C5_Witness ==
    /\ Calls # {}
    /\ new_only
    /\ \E t \in CardsOfPage :
        /\ extract_price(t) # None /\ ~HasUsedMarker(t)
        /\ \E o \in Range(returned[1]) : o.price = extract_price(t)[1]
    /\ \E t \in CardsOfPage : extract_price(t) # None /\ HasUsedMarker(t)

\* the cards the running call has passed over
CardsPassed ==
    IF p_pc = "cards"
    THEN {card_text(page, text_nodes[k]) : k \in 1..(node_i - 1)}
    ELSE {}

\* o was built from the card text t, which passes every filter
BuiltFrom(o, t) ==
    /\ HasAllKeywords(t)
    /\ new_only => ~HasUsedMarker(t)
    /\ PriceShaped(t)
    /\ o.title = MakeTitle(t)
    /\ extract_price(t) = Some(o.price)
    /\ o.price \in Nat
    /\ o.dealer_name = ParseDealerName

\* C6: every offer of the parser has an integer price and was built from a
\* card text that has all keywords, no used-vehicle marker when new_only is
\* enabled, and a price-shaped substring: a card without one yields no offer.
C6_OfferInvariant ==
    /\ p_pc = "cards" => \A o \in Range(offers) : \E t \in CardsPassed : BuiltFrom(o, t)
    /\ \A c \in Calls : \A o \in Range(returned[c]) : \E t \in CardsOfPage : BuiltFrom(o, t)

\* a card with all keywords and no price was passed over, another gave an offer
C6_Witness ==
    /\ p_pc = "cards"
    /\ offers # <<>>
    /\ \E t \in CardsPassed : HasAllKeywords(t) /\ ~PriceShaped(t)

\* C9: two calls with the same arguments return equal sequences.
C9_ParseIdempotent ==
    /\ \A c \in Calls : returned[c] = returned[1]
    /\ p_pc = "done" => Len(returned) = NumCalls

\* both calls returned an offer, a duplicate having been dropped in each
C9_Witness ==
    /\ p_pc = "done"
    /\ returned[NumCalls] # <<>>
    /\ Len(text_nodes) > Len(returned[NumCalls])
    /\ seen # {}

\* the offers the cards of a page give before duplicates are dropped, in
\* candidate order
RECURSIVE CardOffers(_, _, _, _, _)
CardOffers(p, nodes, k, dealer_name, inventory_url) ==
    IF k > Len(nodes) THEN <<>>
    ELSE LET t == card_text(p, nodes[k])
         IN  (IF /\ HasAllKeywords(t)
                 /\ ~(SEARCH_NEW_ONLY /\ HasUsedMarker(t))
                 /\ extract_price(t) # None
              THEN <<VehicleOffer(dealer_name, MakeTitle(t), extract_price(t)[1],
                                  inventory_url)>>
              ELSE <<>>)
             \o CardOffers(p, nodes, k + 1, dealer_name, inventory_url)

CardOffersOf(e) ==
    CardOffers(e.html[1].dom, CandidatesFrom(e.html[1].dom, 1), 1,
               dealers[e.dealer].dealer_name, dealers[e.dealer].inventory_url)

\* q is sub with every later occurrence of a key dropped
FirstOccurrences(q, all) ==
    LET kept == {k \in 1..Len(all) :
                    \A j \in 1..(k - 1) : OfferKey(all[j]) # OfferKey(all[k])}
    IN  /\ Len(q) = Cardinality(kept)
        /\ \A k \in kept :
            q[Cardinality({j \in kept : j <= k})] = all[k]

\* C7: within the result of one parse call no two offers have the same
\* (dealer_name, title, price), and of the cards with the same key the first
\* in candidate order is the one kept; across dealers nothing is dropped:
\* the final sequence has every offer of every dealer's parse, so two
\* dealers whose pages yield the same (title, price) contribute one each.
C7_DedupPerDealer ==
    /\ \A k \in 1..Len(ParseEvents) :
        LET e == ParseEvents[k]
        IN  /\ \A a, b \in 1..Len(e.offers) :
                a # b => OfferKey(e.offers[a]) # OfferKey(e.offers[b])
            /\ k = Len(ParseEvents) /\ pc = "loop" =>
                    FirstOccurrences(e.offers, CardOffersOf(e))
    /\ AtReturn => IsPermutation(result, ConcatParsed(ParseEvents, 1))

\* two dealers gave the same (title, price), both offers are in the result,
\* and a duplicate card was dropped within a dealer
C7_Witness ==
    /\ AtReturn
    /\ Len(ParseEvents) = 2
    /\ \E a \in Range(ParseEvents[1].offers) : \E b \in Range(ParseEvents[2].offers) :
        /\ a.title = b.title /\ a.price = b.price
        /\ Cardinality({k \in 1..Len(result) :
                            result[k].title = a.title /\ result[k].price = a.price}) = 2
    /\ Len(CardOffersOf(ParseEvents[1])) > Len(ParseEvents[1].offers)

\* C8: a run in which find_best_offers returns no offer lets no exception
\* escape and its final report is the "no offers found" notice; every run
\* that reaches its end has printed that notice or a populated ranked
\* summary.
C8_NoOffersNotice ==
    /\ Returned /\ result = <<>> => pc \in {"main", "exit"}
    /\ pc = "exit" =>
        /\ result = <<>> => stdout = <<NoOffersLine>>
        /\ \/ stdout = <<NoOffersLine>>
           \/ result # <<>> /\ stdout = print_summary(result, TopN)

(***************************************************************************)
(* extract_price                                                           *)
(***************************************************************************)
PriceReturned == x_pc = "returned"

\* C10 as stated: the price is absent only when the text has no
\* price-shaped substring, and a returned price is an integer of 4 to 8
\* decimal digits.
C10_Original ==
    PriceReturned =>
        /\ price = None <=> ~PriceShaped(text)
        /\ price # None => price[1] >= 1000 /\ price[1] <= 99999999

\* the decimal value of a string of digits, most significant first
RECURSIVE ValueFrom(_, _, _)
ValueFrom(ds, k, acc) ==
    IF k > Len(ds) THEN acc ELSE ValueFrom(ds, k + 1, 10 * acc + DigitVal(ds[k]))

\* C10, amended: extract_price takes the first substring made of a dollar
\* sign, optional whitespace, then 4 to 8 characters each a digit or a comma
\* (as many as there are, up to 8), and returns the integer value of its
\* digits, commas stripped; it returns no price when the text has no such
\* substring or when that substring has no digit.  A returned price is an
\* integer from 0 to 99,999,999.
C10_ExtractPrice ==
    PriceReturned =>
        LET starts == {k \in 1..Len(text) :
                          \E j \in (k + 1)..Len(text) : AmountAt(text, k, j)}
        IN  IF starts = {} THEN price = None
            ELSE LET k == CHOOSE a \in starts : \A b \in starts : a <= b
                     j == CHOOSE a \in (k + 1)..Len(text) : AmountAt(text, k, a)
                     n == CHOOSE a \in MinPriceChars..MaxPriceChars :
                            /\ j + a - 1 <= Len(text)
                            /\ \A m \in j..(j + a - 1) : text[m] \in PriceClass
                            /\ \/ a = MaxPriceChars
                               \/ j + a > Len(text)
                               \/ text[j + a] \notin PriceClass
                     ds == SelectSeq(SubSeq(text, j, j + n - 1),
                                     LAMBDA c : c \in DigitChars)
                 IN  IF ds = <<>> THEN price = None
                     ELSE /\ price = Some(ValueFrom(ds, 1, 0))
                          /\ price[1] >= 0 /\ price[1] <= 99999999

\* a comma counted among the 4 characters: a price of three digits
C10_Witness ==
    /\ PriceReturned
    /\ price # None
    /\ price[1] < 1000
    /\ Contains(text, <<",">>)

====
